---- MODULE Spec2Model ----
(***************************************************************************)
(* Model of the file-lifecycle state machine of src/src/Dropzone.js: the   *)
(* retained collection this._files, the fileWithMeta objects, the module   *)
(* counter id, and the asynchronous upload tasks started by uploadFile.    *)
(*                                                                         *)
(* Every synchronous stretch of code (from an event or a call up to the    *)
(* next await or the return) is one action.  Objects are kept in a heap    *)
(* (objs) because closures and transports keep referring to a record       *)
(* after it has left this._files.                                          *)
(***************************************************************************)
EXTENDS Integers, Sequences, FiniteSets, TLC

\* ---------------------------------------------------------------- bounds
\* number of files retained over the lifetime of the component
MaxObjs == 2
\* number of uploadFile invocations that reach getUploadParams
MaxXhr == 2

\* ------------------------------------------------- props used by the model
\* this.props.minSizeBytes / maxSizeBytes as configured in the explored runs
MinSizeBytes == 1
MaxSizeBytes == 1
\* e.total of a length-computable progress event
Total == 2
\* stands for the IEEE value Infinity that x / 0 yields for x > 0
Infinity == 1000

ImageType == "image/png"
TextType == "text/plain"
MozType == "application/x-moz-file"

\* The files handed to handleFiles: an image of every size class, a file
\* of a type that `accept` does not match, and a file with the placeholder
\* type of old Firefox drag events.
Files ==
  [type : {ImageType}, size : {0, 1, 2}]
  \cup [type : {TextType}, size : {1}]
  \cup [type : {MozType}, size : {1}]

\* utils.accepts(file, accept) with accept = 'image/*'
accepts(file) == file.type = ImageType

\* this.props.previewTypes (defaultProps)
previewTypes == {"image", "audio", "video"}

\* The meta a collaborator hands back (from onChangeStatus, or as
\* params.meta from getUploadParams): a custom field and a status key.
CollaboratorMeta == [note |-> "x", status |-> "done"]

\* Values getUploadParams resolves to: nullish, an object without url, or an
\* object with a url and extra meta.
Params ==
  { [nullish |-> TRUE, url |-> FALSE, meta |-> CollaboratorMeta],
    [nullish |-> FALSE, url |-> FALSE, meta |-> CollaboratorMeta],
    [nullish |-> FALSE, url |-> TRUE, meta |-> CollaboratorMeta] }

\* The configurations explored.  onChangeStatus is "absent" (not
\* configured) or "meta" (returns { meta: CollaboratorMeta } on every call).
\* With an upload-parameter provider the runs are the long ones, and they
\* are explored with onUploadReady and the notifier configured (onUploadReady
\* answers either way on each call) and maxFiles = 2.
PropsSet ==
  { p \in [ getUploadParams : BOOLEAN, onUploadReady : BOOLEAN,
            onChangeStatus : {"absent", "meta"},
            onCancel : {TRUE}, onRemove : {TRUE}, onRestart : {TRUE},
            maxFiles : {1, 2} ] :
      p.getUploadParams => (p.onUploadReady /\ p.onChangeStatus = "meta" /\ p.maxFiles = 2) }

VARIABLES
  props,    \* this.props, fixed for the lifetime of the component
  id,       \* the module-level counter `let id = 0`
  files,    \* this._files: sequence of references into objs
  objs,     \* heap of fileWithMeta objects, in creation order
  xhrs,     \* upload tasks (one per uploadFile invocation), in creation order
  rejected, \* the fileWithMeta objects the latest handleFiles call turned away
  owed,     \* history: records cancelled while uploading and not aborted since
  mounted,  \* "mounted" until componentWillUnmount ran; then how it ended
  funnelled \* history: every handler run so far paired each assignment of
            \* meta.status with its onChangeStatus call

vars == <<props, id, files, objs, xhrs, rejected, owed, mounted, funnelled>>

\* ------------------------------------------------------------- helpers
Range(s) == { s[i] : i \in 1..Len(s) }

\* The handlers are operators from a state record to a state record.  Its
\* field calls collects, in order, the collaborator invocations the handler
\* makes (function, record, and the record's status at that moment); they
\* are the handler's output and leave no other trace in the program state.
\* Its field log collects the same invocations together with the
\* assignments to meta.status (fn "assign"), in the order they happen.
\* Its field rejected collects the fileWithMeta objects that handleFile
\* created and did not push to this._files: nothing refers to them once
\* handleFile has returned.
State ==
  [id |-> id, files |-> files, objs |-> objs, xhrs |-> xhrs,
   calls |-> <<>>, rejected |-> <<>>, log |-> <<>>]

Notification(fn, o, status) == [fn |-> fn, o |-> o, status |-> status]

SetMeta_shared(S, o, key, val) ==
  [S EXCEPT !.objs = [p \in DOMAIN @ |-> [@[p] EXCEPT !.meta = [@ EXCEPT ![key] = val]]],
            !.log = IF key = "status" THEN Append(@, Notification("assign", o, val)) ELSE @]

SetMeta(S, o, key, val) ==
  [S EXCEPT !.objs[o].meta = [@ EXCEPT ![key] = val],
            !.log = IF key = "status" THEN Append(@, Notification("assign", o, val)) ELSE @]

Call(S, fn, o) ==
  [S EXCEPT !.calls = Append(@, Notification(fn, o, S.objs[o].meta.status)),
            !.log = Append(@, Notification(fn, o, S.objs[o].meta.status))]

\* `delete meta.status`
DeleteStatus_keep(m) == m
DeleteStatus(m) == [k \in DOMAIN m \ {"status"} |-> m[k]]

\* `{ ...a, ...b }`
Spread(a, b) == [k \in DOMAIN a \cup DOMAIN b |-> IF k \in DOMAIN b THEN b[k] ELSE a[k]]

\* handleChangeStatus(fileWithMeta)
handleChangeStatus(S, o) ==
  IF props.onChangeStatus = "absent" THEN S
  ELSE [Call(S, "onChangeStatus", o) EXCEPT
          !.objs[o].meta = Spread(@, DeleteStatus(CollaboratorMeta))]

\* -------------------------------------------------------------- uploadFile
\* uploadFile up to `await getUploadParams(fileWithMeta)`.  Without a
\* provider the call of undefined throws inside the async function: the
\* returned promise rejects and nothing else happens.
uploadFile(S, o) ==
  IF ~props.getUploadParams THEN S
  ELSE [Call(S, "getUploadParams", o) EXCEPT
          !.xhrs = Append(@, [owner |-> o, stage |-> "params", code |-> 0, loaded |-> 0])]

\* ----------------------------------------------------------- triggerUpload
triggerUpload_silent(S, o) ==
  IF S.objs[o].triggered THEN S
  ELSE LET S1 == [S EXCEPT !.objs[o].triggered = TRUE]
       IN IF props.getUploadParams
          THEN SetMeta(uploadFile(S1, o), o, "status", "uploading")
          ELSE SetMeta(S1, o, "status", "done")

triggerUpload_again(S, o) ==
  LET S1 == [S EXCEPT !.objs[o].triggered = TRUE]
      S2 == IF props.getUploadParams
            THEN SetMeta(uploadFile(S1, o), o, "status", "uploading")
            ELSE SetMeta(S1, o, "status", "done")
  IN handleChangeStatus(S2, o)

triggerUpload(S, o) ==
  IF S.objs[o].triggered THEN S
  ELSE LET S1 == [S EXCEPT !.objs[o].triggered = TRUE]
           S2 == IF props.getUploadParams
                 THEN SetMeta(uploadFile(S1, o), o, "status", "uploading")
                 ELSE SetMeta(S1, o, "status", "done")
       IN handleChangeStatus(S2, o)

\* ------------------------------------------------------------- handleFile
isImage(type) == type = ImageType
isMedia(type) == isImage(type)

\* `file.type !== 'application/x-moz-file' && !accepts(file, accept)`
typeRejected_noCheck(file) == FALSE
typeRejected(file) == file.type # MozType /\ ~accepts(file)

\* `this._files.length >= maxFiles`
atCapacity_offByOne(S) == Len(S.files) > props.maxFiles
atCapacity(S) == Len(S.files) >= props.maxFiles

\* `size < minSizeBytes || size > maxSizeBytes`
sizeRejected_minOnly(file) == file.size < MinSizeBytes
sizeRejected(file) == file.size < MinSizeBytes \/ file.size > MaxSizeBytes

\* `id += 1`
nextId_same(i) == i
nextId(i) == i + 1

\* handleChangeStatus(fileWithMeta) for a fileWithMeta that is not retained
\* (o is 0 in the notification)
rejectFile(S, rec) ==
  LET merged == IF props.onChangeStatus = "meta"
                THEN [rec EXCEPT !.meta = Spread(@, DeleteStatus(CollaboratorMeta))]
                ELSE rec
      called == IF props.onChangeStatus = "absent" THEN <<>>
                ELSE <<Notification("onChangeStatus", 0, rec.meta.status)>>
  IN [S EXCEPT !.rejected = Append(@, merged),
               !.calls = @ \o called,
               !.log = Append(@, Notification("assign", 0, rec.meta.status)) \o called]

\* handleFile from its start to `await this.generatePreview(fileWithMeta)`,
\* including generatePreview up to its first await (or its return).
handleFileSync(S, file) ==
  LET o == Len(S.objs) + 1
      rec(status) ==
        [ file |-> file,
          meta |-> [type |-> file.type, size |-> file.size, percent |-> 0,
                    id |-> S.id, status |-> status],
          xhr |-> 0, pc |-> "end", triggered |-> FALSE, hasTrigger |-> FALSE ]
  IN IF typeRejected(file)
     THEN rejectFile(S, rec("rejected_file_type"))
     ELSE IF atCapacity(S)
     THEN rejectFile(S, rec("rejected_max_files"))
     ELSE
       LET S1 == [S EXCEPT !.objs = Append(@, rec("preparing")), !.files = Append(@, o),
                           !.log = Append(@, Notification("assign", o, "preparing"))]
           S2 == [handleChangeStatus(S1, o) EXCEPT !.id = nextId(@)]
       IN IF sizeRejected(file)
          THEN handleChangeStatus(SetMeta(S2, o, "status", "error_file_size"), o)
          ELSE IF ~isMedia(file.type)
          THEN [S2 EXCEPT !.objs[o].pc = "resume"]
          ELSE IF isImage(file.type) /\ "image" \in previewTypes
          THEN [S2 EXCEPT !.objs[o].pc = "onload",
                          !.objs[o].meta = Spread(@, [previewUrl |-> TRUE])]
          ELSE [S2 EXCEPT !.objs[o].pc = "resume"]

\* handleFile after `await this.generatePreview(fileWithMeta)`; delay is
\* whether onUploadReady answers { delayUpload: true }
handleFileResume(S, o, delay) ==
  LET S0 == [S EXCEPT !.objs[o].pc = "end"]
  IN IF props.onUploadReady
     THEN LET S1 == Call([S0 EXCEPT !.objs[o].hasTrigger = TRUE], "onUploadReady", o)
          IN IF delay THEN S1 ELSE triggerUpload(S1, o)
     ELSE triggerUpload(S0, o)

\* files.forEach(this.handleFile): the synchronous parts run one after the
\* other; the continuations of the files whose generatePreview returned
\* without awaiting run as microtasks right after, in the same order.
RECURSIVE forEachSync(_, _)
forEachSync(S, fs) ==
  IF fs = <<>> THEN S
  ELSE forEachSync(handleFileSync(S, Head(fs)), Tail(fs))

RECURSIVE runMicrotasks(_, _, _)
runMicrotasks(S, o, delay) ==
  IF o > Len(S.objs) THEN S
  ELSE runMicrotasks(IF S.objs[o].pc = "resume"
                     THEN handleFileResume(S, o, delay) ELSE S,
                     o + 1, delay)

handleFiles(S, fs, delay) ==
  runMicrotasks(forEachSync(S, fs), Len(S.objs) + 1, delay)

Batches == { <<f>> : f \in Files } \cup { <<f, g>> : f \in Files, g \in Files }

\* ---------------------------------------------------------------- actions
\* what onUploadReady may answer about delayUpload
Delays == IF props.onUploadReady THEN BOOLEAN ELSE {FALSE}

\* The assignments of meta.status and the onChangeStatus calls that a
\* handler made on record o, in order
statusLog(log, o) ==
  SelectSeq(log, LAMBDA e : e.o = o /\ e.fn \in {"assign", "onChangeStatus"})

\* In log every assignment of a record's status is followed, before the next
\* one, by one onChangeStatus call with that record and status (by none when
\* this.props.onChangeStatus is not configured), and there is no other
\* onChangeStatus call.
Funnelled(log) ==
  \A o \in { log[i].o : i \in 1..Len(log) } :
    LET sub == statusLog(log, o)
    IN IF props.onChangeStatus = "absent"
       THEN \A i \in 1..Len(sub) : sub[i].fn = "assign"
       ELSE /\ Len(sub) % 2 = 0
            /\ \A k \in 1..(Len(sub) \div 2) :
                 /\ sub[2 * k - 1].fn = "assign"
                 /\ sub[2 * k].fn = "onChangeStatus"
                 /\ sub[2 * k].status = sub[2 * k - 1].status

\* The step that takes the program to the state S a handler returns;
\* cancelReq are the records on which this step invoked cancel while their
\* status was uploading.
Commit(S, cancelReq) ==
  /\ Len(S.xhrs) <= MaxXhr
  /\ Len(S.objs) <= MaxObjs
  /\ id' = S.id
  /\ files' = S.files
  /\ objs' = S.objs
  /\ xhrs' = S.xhrs
  /\ rejected' = S.rejected
  /\ owed' = { o \in owed \cup cancelReq : S.objs[o].meta.status # "aborted" }
  /\ funnelled' = (funnelled /\ Funnelled(S.log))
  /\ UNCHANGED <<props, mounted>>

Init ==
  /\ props \in PropsSet
  /\ id = 0
  /\ files = <<>>
  /\ objs = <<>>
  /\ xhrs = <<>>
  /\ rejected = <<>>
  /\ owed = {}
  /\ mounted = "mounted"
  /\ funnelled = TRUE

\* handleDrop / FileInput.onFiles
HandleFiles ==
  \E fs \in Batches, delay \in Delays :
    /\ mounted = "mounted"
    /\ Len(objs) < MaxObjs
    /\ Commit(handleFiles(State, fs, delay), {})

\* img.onload fires for a decodable image; generatePreview and handleFile
\* then run to the next await or to their end
ImgOnload ==
  \E o \in 1..Len(objs), delay \in Delays :
    /\ objs[o].pc = "onload"
    /\ LET S1 == [State EXCEPT !.objs[o].meta = Spread(@, [width |-> TRUE, height |-> TRUE])]
       IN Commit(handleFileResume(S1, o, delay), {})

\* img.onerror fires for an image that cannot be decoded: no listener is
\* registered, so the promise awaited by generatePreview stays pending
ImgOnerror ==
  \E o \in 1..Len(objs) :
    /\ objs[o].pc = "onload"
    /\ Commit([State EXCEPT !.objs[o].pc = "onerror"], {})

\* external code invokes fileWithMeta.triggerUpload
TriggerUpload ==
  \E o \in 1..Len(objs) :
    /\ objs[o].hasTrigger
    /\ Commit(triggerUpload(State, o), {})

\* ------------------------------------------------- uploadFile, continued
\* `(e.loaded * 100.0) / e.total || 100`: 0 and NaN (0 / 0) are falsy,
\* x / 0 is Infinity for x > 0
percentOf(loaded, total) ==
  IF total = 0 THEN (IF loaded = 0 THEN 100 ELSE Infinity)
  ELSE IF (loaded * 100) \div total = 0 THEN 100 ELSE (loaded * 100) \div total

\* the readystatechange listener, run with xhr.readyState and xhr.status
onreadystatechange(S, o, readyState, code) ==
  IF readyState # 2 /\ readyState # 4 THEN S
  ELSE IF code = 0
  THEN handleChangeStatus(SetMeta(S, o, "status", "aborted"), o)
  ELSE IF code < 400
  THEN LET S1 == SetMeta(S, o, "percent", 100)
           S2 == IF readyState = 2 THEN SetMeta(S1, o, "status", "headers_received") ELSE S1
           S3 == IF readyState = 4 THEN SetMeta(S2, o, "status", "done") ELSE S2
       IN handleChangeStatus(S3, o)
  ELSE handleChangeStatus(SetMeta(S, o, "status", "error_upload"), o)

\* `params || {}` and `!url`
noUrl_never(params) == FALSE
noUrl(params) == params.nullish \/ ~params.url

\* uploadFile after `await getUploadParams(fileWithMeta)` resolved to params
uploadFileResume(S, x, params) ==
  LET o == S.xhrs[x].owner
      extraMeta == DeleteStatus(params.meta)
  IN IF noUrl(params)
     THEN LET S1 == [S EXCEPT !.xhrs[x].stage = "nourl"]
          IN handleChangeStatus(SetMeta(S1, o, "status", "error_upload_params"), o)
     ELSE [S EXCEPT !.xhrs[x].stage = "sent",
                    !.objs[o].meta = Spread(@, extraMeta),
                    !.objs[o].xhr = x]

\* a request that has been sent and has not yet reached readyState 4
InFlight(x) == xhrs[x].stage \in {"sent", "headers"}

\* the promise returned by getUploadParams resolves
ProviderResolve ==
  \E x \in 1..Len(xhrs), params \in Params :
    /\ xhrs[x].stage = "params"
    /\ Commit(uploadFileResume(State, x, params), {})

\* xhr.upload 'progress' event while the request body is being sent.  The
\* field loaded of a task only orders the progress events of one request
\* (e.loaded grows); it is cleared when the body has been sent or dropped.
XhrProgress ==
  \E x \in 1..Len(xhrs), total \in {Total} :
    \E loaded \in (xhrs[x].loaded + 1)..Total :
      /\ xhrs[x].stage = "sent"
      /\ LET o == xhrs[x].owner
             S1 == [State EXCEPT !.xhrs[x].loaded = loaded]
         IN Commit(SetMeta(S1, o, "percent", percentOf(loaded, total)), {})

\* readystatechange to HEADERS_RECEIVED (2) with the response's status code
XhrHeaders ==
  \E x \in 1..Len(xhrs), code \in {200, 500} :
    /\ xhrs[x].stage = "sent"
    /\ LET o == xhrs[x].owner
           S1 == [State EXCEPT !.xhrs[x].stage = "headers", !.xhrs[x].code = code,
                               !.xhrs[x].loaded = 0]
       IN Commit(onreadystatechange(S1, o, 2, code), {})

\* readystatechange to DONE (4) when the response is complete (the change
\* to LOADING (3) in between returns at once and is not a step of its own).
\* The field code of a task is xhr.status as the listener reads it; no
\* listener runs after DONE and the field is cleared there.
XhrDone ==
  \E x \in 1..Len(xhrs) :
    /\ xhrs[x].stage = "headers"
    /\ LET o == xhrs[x].owner
           S1 == [State EXCEPT !.xhrs[x].stage = "done", !.xhrs[x].code = 0]
       IN Commit(onreadystatechange(S1, o, 4, xhrs[x].code), {})

\* the connection fails: readystatechange to DONE (4) with xhr.status 0
XhrError ==
  \E x \in 1..Len(xhrs) :
    /\ InFlight(x)
    /\ LET o == xhrs[x].owner
           S1 == [State EXCEPT !.xhrs[x].stage = "done", !.xhrs[x].code = 0,
                               !.xhrs[x].loaded = 0]
       IN Commit(onreadystatechange(S1, o, 4, 0), {})

\* xhr.abort(): a request in flight is terminated, which sets readyState
\* to DONE (4) and the response to a network error (xhr.status 0) and
\* dispatches readystatechange before abort() returns; on a request that
\* is already DONE nothing is dispatched.
abort(S, x) ==
  IF S.xhrs[x].stage \in {"sent", "headers"}
  THEN LET S1 == [S EXCEPT !.xhrs[x].stage = "done", !.xhrs[x].code = 0,
                           !.xhrs[x].loaded = 0]
       IN onreadystatechange(S1, S.xhrs[x].owner, 4, 0)
  ELSE S

\* ------------------------------------------------------------ handleCancel
handleCancel(S, o) ==
  IF S.objs[o].xhr = 0 THEN S
  ELSE LET S1 == abort(S, S.objs[o].xhr)
       IN IF props.onCancel THEN Call(S1, "onCancel", o) ELSE S1

Cancel ==
  \E o \in Range(files) :
    /\ mounted = "mounted"
    /\ Commit(handleCancel(State, o), {})

\* Cancel, with the history of the cancel requests made on uploading records
CancelTracked ==
  \E o \in Range(files) :
    /\ mounted = "mounted"
    /\ Commit(handleCancel(State, o),
              IF objs[o].meta.status = "uploading" THEN {o} ELSE {})

\* ------------------------------------------------------------ handleRemove
\* this._files.findIndex(f => f.meta.id === fileWithMeta.meta.id), 0 for -1
findIndex(S, o) ==
  LET hits == { i \in 1..Len(S.files) : S.objs[S.files[i]].meta.id = S.objs[o].meta.id }
  IN IF hits = {} THEN 0 ELSE CHOOSE i \in hits : \A j \in hits : i <= j

\* this._files.splice(index, 1)
splice_last(s, index) == SubSeq(s, 1, Len(s) - 1)
splice(s, index) == SubSeq(s, 1, index - 1) \o SubSeq(s, index + 1, Len(s))

handleRemove(S, o) ==
  LET index == findIndex(S, o)
  IN IF index # 0
     THEN LET S1 == IF props.onRemove THEN Call(S, "onRemove", o) ELSE S
          IN [S1 EXCEPT !.files = splice(@, index)]
     ELSE S

Remove ==
  \E o \in 1..Len(objs) :
    /\ mounted = "mounted"
    /\ Commit(handleRemove(State, o), {})

\* ----------------------------------------------------------- handleRestart
handleRestart_noStatus(S, o) ==
  LET S2 == handleChangeStatus(uploadFile(S, o), o)
  IN IF props.onRestart THEN Call(S2, "onRestart", o) ELSE S2

handleRestart(S, o) ==
  LET S1 == uploadFile(S, o)
      S2 == handleChangeStatus(SetMeta(S1, o, "status", "uploading"), o)
  IN IF props.onRestart THEN Call(S2, "onRestart", o) ELSE S2

Restart ==
  \E o \in Range(files) :
    /\ mounted = "mounted"
    /\ Commit(handleRestart(State, o), {})

\* ----------------------------------------------------- componentWillUnmount
\* `for (const file of this._files) if (file.meta.status === 'uploading')
\* file.xhr.abort()`, from index i on.  Reading abort of an undefined xhr
\* throws a TypeError, which ends the loop: fault tells whether it did.
RECURSIVE unmountFrom(_, _)
unmountFrom(S, i) ==
  IF i > Len(S.files) THEN [state |-> S, fault |-> FALSE]
  ELSE LET o == S.files[i]
       IN IF S.objs[o].meta.status = "uploading"
          THEN IF S.objs[o].xhr = 0
               THEN [state |-> S, fault |-> TRUE]
               ELSE unmountFrom(abort(S, S.objs[o].xhr), i + 1)
          ELSE unmountFrom(S, i + 1)

componentWillUnmount(S) == unmountFrom(S, 1)

\* React unmounts the component: no handler of the view runs afterwards,
\* while listeners, pending promises and closures handed out keep running
ComponentWillUnmount ==
  /\ mounted = "mounted"
  /\ LET r == componentWillUnmount(State)
     IN /\ id' = r.state.id
        /\ files' = r.state.files
        /\ objs' = r.state.objs
        /\ xhrs' = r.state.xhrs
        /\ rejected' = r.state.rejected
        /\ mounted' = IF r.fault THEN "faulted" ELSE "unmounted"
        /\ funnelled' = (funnelled /\ Funnelled(r.state.log))
  /\ UNCHANGED <<props, owed>>

Next ==
  \/ HandleFiles
  \/ ImgOnload
  \/ ImgOnerror
  \/ TriggerUpload
  \/ ProviderResolve
  \/ XhrProgress
  \/ XhrHeaders
  \/ XhrDone
  \/ XhrError
  \/ Cancel
  \/ Remove
  \/ Restart

Spec == Init /\ [][Next]_vars

\* The same program with the history of cancel requests kept, and with the
\* events the environment owes: a decode ends with load or error, the
\* provider's promise settles, a request that was sent is answered or
\* fails, and a deferred triggerUpload is invoked.
NextTracked ==
  \/ HandleFiles
  \/ ImgOnload
  \/ ImgOnerror
  \/ TriggerUpload
  \/ ProviderResolve
  \/ XhrProgress
  \/ XhrHeaders
  \/ XhrDone
  \/ XhrError
  \/ CancelTracked
  \/ Remove
  \/ Restart

\* The same program with its disposal
TeardownSpec == Init /\ [][Next \/ ComponentWillUnmount]_vars

FairSpec ==
  /\ Init
  /\ [][NextTracked]_vars
  /\ WF_vars(ImgOnload \/ ImgOnerror)
  /\ WF_vars(TriggerUpload)
  /\ WF_vars(ProviderResolve)
  /\ WF_vars(XhrHeaders \/ XhrError)
  /\ WF_vars(XhrDone \/ XhrError)

\* ================================================================ claims
Heap == 1..Len(objs)
Status(o) == objs[o].meta.status
passesType(f) == f.type = MozType \/ accepts(f)
sizeInRange(f) == f.size >= MinSizeBytes /\ f.size <= MaxSizeBytes
notified(status, o) ==
  IF props.onChangeStatus = "absent" THEN <<>>
  ELSE <<Notification("onChangeStatus", o, status)>>

\* C1: accepting a file while this._files already holds maxFiles records
\* gives it the status rejected_max_files, notifies onChangeStatus with that
\* status and retains nothing; and in every reachable state the retained
\* count is at most maxFiles.
C1_Capacity ==
  /\ Len(files) <= props.maxFiles
  /\ \A f \in Files :
       (passesType(f) /\ Len(files) >= props.maxFiles) =>
         LET S == handleFileSync(State, f)
         IN /\ S.files = files
            /\ S.objs = objs
            /\ Len(S.rejected) = 1
            /\ S.rejected[1].meta.status = "rejected_max_files"
            /\ S.calls = notified("rejected_max_files", 0)

C1_Witness ==
  /\ Len(files) = props.maxFiles
  /\ props.onChangeStatus = "meta"
  /\ rejected # <<>>
  /\ rejected[Len(rejected)].meta.status = "rejected_max_files"

\* C2: the records ever retained (objs holds every one of them, removed or
\* not) have pairwise different meta.id; so no two retained records share an
\* id and no id is given again after a removal.
C2_UniqueIds ==
  \A a \in Heap, b \in Heap : a # b => objs[a].meta.id # objs[b].meta.id

C2_Witness ==
  /\ Len(objs) = 2
  /\ files = <<2>>
  /\ objs[1].meta.id # objs[2].meta.id

\* C3: a file whose type fails `accept` and is not the placeholder type ends
\* with status rejected_file_type (whatever onChangeStatus returns) and is
\* never retained; a file with the placeholder type is never rejected for
\* its type.
C3_TypeRejected ==
  /\ \A o \in Heap : passesType(objs[o].file)
  /\ \A i \in 1..Len(rejected) :
       /\ rejected[i].meta.status \in {"rejected_file_type", "rejected_max_files"}
       /\ ~passesType(rejected[i].file) <=> rejected[i].meta.status = "rejected_file_type"
  /\ \A f \in Files :
       LET S == handleFileSync(State, f)
       IN IF passesType(f)
          THEN \A i \in 1..Len(S.rejected) : S.rejected[i].meta.status # "rejected_file_type"
          ELSE /\ S.files = files
               /\ S.objs = objs
               /\ Len(S.rejected) = 1
               /\ S.rejected[1].meta.status = "rejected_file_type"
               /\ S.calls = notified("rejected_file_type", 0)

C3_Witness ==
  /\ Len(files) < props.maxFiles
  /\ \E i \in 1..Len(rejected) :
       /\ rejected[i].file.type = TextType
       /\ rejected[i].meta.status = "rejected_file_type"
  /\ \E o \in Range(files) : objs[o].file.type = MozType

\* C4: a file that passes the type and capacity checks and whose size is
\* out of range is appended to this._files, is notified as preparing and
\* then as error_file_size, and its pipeline stops: in no state has
\* generatePreview, the ready gate or triggerUpload run for it.
C4_SizeError ==
  /\ \A o \in Heap :
       ~sizeInRange(objs[o].file) =>
         /\ objs[o].pc = "end"
         /\ ~objs[o].triggered
         /\ ~objs[o].hasTrigger
         /\ DOMAIN objs[o].meta \cap {"previewUrl", "width", "height"} = {}
  /\ \A f \in Files :
       (passesType(f) /\ ~sizeInRange(f) /\ Len(files) < props.maxFiles) =>
         LET S == handleFileSync(State, f)
             o == Len(objs) + 1
         IN /\ S.files = Append(files, o)
            /\ S.objs[o].meta.status = "error_file_size"
            /\ S.calls = notified("preparing", o) \o notified("error_file_size", o)
            /\ S.rejected = <<>>
            /\ S.xhrs = xhrs

C4_Witness ==
  \E o \in Range(files) :
    /\ objs[o].file.size > MaxSizeBytes
    /\ Status(o) = "error_file_size"
    /\ Len(files) = 2

\* C5 (as claimed): without getUploadParams no transport is ever created,
\* and every file that passed the type, capacity and size checks eventually
\* has status done.
C5_EventuallyDone ==
  /\ [](~props.getUploadParams => (xhrs = <<>> /\ \A o \in Heap : objs[o].xhr = 0))
  /\ \A o \in 1..MaxObjs :
       <>(~props.getUploadParams /\ o \in Heap /\ sizeInRange(objs[o].file))
         => <>(o \in Heap /\ Status(o) = "done")

\* C6 (as claimed): a record whose status is done or headers_received has
\* percent exactly 100.
C6_PercentAtDone ==
  \A o \in Heap : Status(o) \in {"done", "headers_received"} => objs[o].meta.percent = 100

\* C7: when getUploadParams resolves to a nullish value or to an object
\* without url, the record gets status error_upload_params (notified once),
\* no request is opened or sent by that task, and the handle stored on the
\* record is the one it had.
C7_NoUrl ==
  /\ \A x \in 1..Len(xhrs) :
       xhrs[x].stage = "nourl" => \A o \in Heap : objs[o].xhr # x
  /\ \A x \in 1..Len(xhrs), params \in Params :
       (xhrs[x].stage = "params" /\ (params.nullish \/ ~params.url)) =>
         LET S == uploadFileResume(State, x, params)
             o == xhrs[x].owner
         IN /\ S.objs[o].meta.status = "error_upload_params"
            /\ S.calls = notified("error_upload_params", o)
            /\ S.xhrs[x].stage = "nourl"
            /\ \A y \in 1..Len(xhrs) : y # x => S.xhrs[y] = xhrs[y]
            /\ S.objs[o].xhr = objs[o].xhr
            /\ S.files = files

C7_Witness ==
  \E x \in 1..Len(xhrs) :
    /\ xhrs[x].stage = "nourl"
    /\ Status(xhrs[x].owner) = "error_upload_params"
    /\ objs[xhrs[x].owner].xhr = 0

\* C8 (as claimed): with a provider configured, a cancel invoked on a record
\* whose status is uploading is eventually followed by status aborted on
\* that record; a cancel on a record without a transport handle changes
\* nothing and calls nothing.
C8_CancelAborts ==
  /\ \A o \in 1..MaxObjs :
       (props.getUploadParams /\ o \in owed) ~> (o \in Heap /\ Status(o) = "aborted")
  /\ [](\A o \in Range(files) : objs[o].xhr = 0 => handleCancel(State, o) = State)

RestartStatuses == {"error_upload", "aborted", "error_upload_params", "done"}

OneInFlight ==
  \A x \in 1..Len(xhrs), y \in 1..Len(xhrs) :
    (x # y /\ xhrs[x].owner = xhrs[y].owner) => ~(InFlight(x) /\ InFlight(y))

SupersededSilent ==
  \A x \in 1..Len(xhrs) :
    (xhrs'[x] # xhrs[x] /\ objs[xhrs[x].owner].xhr > x) =>
      /\ objs'[xhrs[x].owner].meta.status = objs[xhrs[x].owner].meta.status
      /\ objs'[xhrs[x].owner].meta.percent = objs[xhrs[x].owner].meta.percent

C10_OneTransport == []OneInFlight /\ [][SupersededSilent]_vars

\* C11 (as claimed): componentWillUnmount completes without a fault, and
\* once it has run no transport of a retained record is in flight, at once
\* or at any later time.
C11_Teardown ==
  /\ mounted # "faulted"
  /\ mounted = "unmounted" =>
       \A x \in 1..Len(xhrs) : xhrs[x].owner \in Range(files) => ~InFlight(x)

\* C12 (as claimed): every step that leaves a record in status uploading,
\* a progress event among them, leaves its percent at least as large as it
\* was, also when the record has been restarted.
C12_ProgressMonotonic ==
  [][\A o \in 1..Len(objs) :
       (objs[o].meta.status = "uploading" /\ objs'[o].meta.status = "uploading") =>
         objs'[o].meta.percent >= objs[o].meta.percent]_vars

\* C13: in every handler run, every assignment of a record's status is
\* followed, before any other status assignment to that record, by exactly
\* one onChangeStatus call carrying that record and the status just assigned
\* (when onChangeStatus is configured; handleChangeStatus calls nothing
\* otherwise).
C13_NotifyEachStatus == funnelled

C13_Witness ==
  /\ props.onChangeStatus = "meta"
  /\ funnelled
  /\ \E o \in Range(files) : Status(o) = "error_file_size"
  /\ \E x \in 1..Len(xhrs) :
       /\ xhrs[x].stage = "done"
       /\ Status(xhrs[x].owner) \in {"done", "aborted", "error_upload"}

\* C14: the merge of the meta that onChangeStatus returned, and the merge of
\* the extra meta that getUploadParams returned, leave the record's status
\* as it was immediately before (the collaborator's status key is dropped)
\* while the collaborator's other fields are taken over.
C14_StatusOwned ==
  /\ \A o \in Heap :
       LET before == objs[o].meta
           S == handleChangeStatus(State, o)
       IN /\ S.objs[o].meta.status = before.status
          /\ props.onChangeStatus = "meta" => S.objs[o].meta.note = CollaboratorMeta.note
  /\ \A x \in 1..Len(xhrs), params \in Params :
       (xhrs[x].stage = "params" /\ ~noUrl(params)) =>
         LET o == xhrs[x].owner
             S == uploadFileResume(State, x, params)
         IN /\ S.objs[o].meta.status = objs[o].meta.status
            /\ S.objs[o].meta.note = params.meta.note
            /\ S.calls = <<>>
  /\ \A i \in 1..Len(rejected) :
       rejected[i].meta.status \in {"rejected_file_type", "rejected_max_files"}

C14_Witness ==
  \E x \in 1..Len(xhrs) :
    /\ xhrs[x].stage = "sent"
    /\ Status(xhrs[x].owner) = "uploading"
    /\ "note" \in DOMAIN objs[xhrs[x].owner].meta
    /\ CollaboratorMeta.status # "uploading"

\* C15: remove on a retained record deletes that record and no other from
\* this._files, keeps the order of the remaining ones and calls onRemove
\* once; remove on a record that is not retained (a second remove of the
\* same record among them) changes nothing and calls nothing.
C15_Remove ==
  /\ \A a \in 1..3, b \in 1..3, c \in 1..3, index \in 1..3 :
       (a # b /\ b # c /\ a # c) =>
         splice(<<a, b, c>>, index) = SelectSeq(<<a, b, c>>, LAMBDA r : r # <<a, b, c>>[index])
  /\ \A o \in Heap :
    LET S == handleRemove(State, o)
        again == handleRemove(S, o)
    IN /\ S.objs = objs
       /\ S.xhrs = xhrs
       /\ again.files = S.files
       /\ again.calls = S.calls
       /\ IF \E i \in 1..Len(files) : objs[files[i]].meta.id = objs[o].meta.id
          THEN /\ S.files = SelectSeq(files, LAMBDA r : r # o)
               /\ Len(S.files) = Len(files) - 1
               /\ S.calls = <<Notification("onRemove", o, Status(o))>>
          ELSE /\ S.files = files
               /\ S.calls = <<>>

C15_Witness ==
  /\ Len(objs) = 2
  /\ files = <<1>>
  /\ objs[2].meta.id # objs[1].meta.id

\* C16 (as claimed): every retained record that passed the size check
\* eventually gets past generatePreview and reaches the ready gate, whether
\* the decode of its content succeeds or fails.
C16_ExtractionCompletes ==
  \A o \in 1..MaxObjs :
    (o \in Heap /\ sizeInRange(objs[o].file)) ~> (o \in Heap /\ objs[o].pc = "end")

\* C17: the first invocation of a record's triggerUpload starts the upload
\* (one getUploadParams call and status uploading) or, without a provider,
\* sets status done, and notifies once; every later invocation, whoever
\* makes it, leaves the record, the transports and the calls as they were.
C17_OneShot ==
  \A o \in Heap :
    (objs[o].pc = "end" /\ sizeInRange(objs[o].file)) =>
      LET S == triggerUpload(State, o)
          again == triggerUpload(S, o)
          status == IF props.getUploadParams THEN "uploading" ELSE "done"
      IN /\ again = S
         /\ ~objs[o].hasTrigger => objs[o].triggered
         /\ IF objs[o].triggered
            THEN S = State
            ELSE /\ S.objs[o].triggered
                 /\ S.objs[o].meta.status = status
                 /\ S.calls =
                      (IF props.getUploadParams
                       THEN <<Notification("getUploadParams", o, Status(o))>> ELSE <<>>)
                      \o notified(status, o)
                 /\ Len(S.xhrs) = Len(xhrs) + (IF props.getUploadParams THEN 1 ELSE 0)
                 /\ \A p \in Heap \ {o} : S.objs[p] = objs[p]

C17_Witness ==
  \E o \in Heap :
    /\ objs[o].hasTrigger
    /\ objs[o].triggered
    /\ props.getUploadParams
    /\ Status(o) \in {"done", "headers_received", "error_upload", "aborted"}

\* C18 (as claimed): a record whose onUploadReady asked for deferral, and
\* whose triggerUpload has not been invoked, has status preparing and no
\* transport; at the ready gate a deferral leaves triggerUpload uninvoked,
\* and without a deferral triggerUpload is invoked at once.
C18_Deferred ==
  /\ \A o \in Heap :
       (objs[o].hasTrigger /\ ~objs[o].triggered) =>
         /\ Status(o) = "preparing"
         /\ objs[o].xhr = 0
         /\ \A x \in 1..Len(xhrs) : xhrs[x].owner # o
  /\ \A o \in Heap :
       objs[o].pc = "onload" =>
         LET deferred == handleFileResume(State, o, TRUE)
             direct == handleFileResume(State, o, FALSE)
         IN /\ direct.objs[o].triggered
            /\ props.onUploadReady =>
                 /\ ~deferred.objs[o].triggered
                 /\ deferred.objs[o].hasTrigger
                 /\ deferred.objs[o].meta.status = Status(o)
                 /\ deferred.xhrs = xhrs

\* C19 (as claimed): once a record has status error_file_size it keeps that
\* status, and no transport is ever started for it.
C19_SizeErrorFinal ==
  \A o \in Heap :
    ~sizeInRange(objs[o].file) =>
      /\ Status(o) = "error_file_size"
      /\ objs[o].xhr = 0
      /\ \A x \in 1..Len(xhrs) : xhrs[x].owner # o

\* S differs from the current state in nothing that belongs to a record
\* other than o: their fileWithMeta objects (meta, status, percent, handle),
\* their upload tasks and their order in this._files
OthersUntouched(S, o) ==
  /\ \A p \in Heap \ {o} : S.objs[p] = objs[p]
  /\ \A x \in 1..Len(xhrs) : xhrs[x].owner # o => S.xhrs[x] = xhrs[x]
  /\ SelectSeq(S.files, LAMBDA r : r # o /\ r \in Heap) = SelectSeq(files, LAMBDA r : r # o)

\* C20: every operation and every asynchronous event of one record (decode
\* completion and the ready gate, triggerUpload, provider resolution,
\* progress, headers, completion, failure, abort, cancel, restart, remove,
\* the notifier's merge) leaves every other record as it was, in every
\* reachable state, that is at every point of every interleaving; so does
\* the acceptance of a further file.
C20_Independent ==
  /\ \A o \in Heap :
       /\ OthersUntouched(handleChangeStatus(State, o), o)
       /\ OthersUntouched(handleCancel(State, o), o)
       /\ OthersUntouched(handleRestart(State, o), o)
       /\ OthersUntouched(handleRemove(State, o), o)
       /\ objs[o].pc = "end" /\ sizeInRange(objs[o].file)
            => OthersUntouched(triggerUpload(State, o), o)
       /\ objs[o].pc = "onload"
            => \A delay \in Delays : OthersUntouched(handleFileResume(State, o, delay), o)
  /\ \A x \in 1..Len(xhrs) :
       LET o == xhrs[x].owner
       IN /\ xhrs[x].stage = "params"
               => \A params \in Params : OthersUntouched(uploadFileResume(State, x, params), o)
          /\ xhrs[x].stage = "sent"
               => \A loaded \in 1..Total :
                    OthersUntouched(SetMeta(State, o, "percent", percentOf(loaded, Total)), o)
          /\ InFlight(x)
               => /\ \A readyState \in {2, 4}, code \in {0, 200, 500} :
                       OthersUntouched(onreadystatechange(State, o, readyState, code), o)
                  /\ OthersUntouched(abort(State, x), o)
  /\ \A f \in Files, delay \in Delays :
       OthersUntouched(handleFiles(State, <<f>>, delay), 0)

C20_Witness ==
  \E x \in 1..Len(xhrs), y \in 1..Len(xhrs) :
    /\ xhrs[x].owner # xhrs[y].owner
    /\ xhrs[x].owner \in Range(files) /\ xhrs[y].owner \in Range(files)
    /\ xhrs[x].stage = "sent" /\ objs[xhrs[x].owner].meta.percent = 50
    /\ xhrs[y].stage = "headers" /\ Status(xhrs[y].owner) = "headers_received"

====
